---------------------------- MODULE Spec2Model ----------------------------
(***************************************************************************)
(* Model of the consultation analyzer: the transcript parsers              *)
(* (utils/parsers.py), the metrics (utils/text_analysis.py), the Gemini    *)
(* client (utils/gemini_client.py) and the session handlers of the         *)
(* Streamlit page (app.py).                                                *)
(*                                                                         *)
(* Text is modelled at two grains.  Transcripts, questions and chat        *)
(* messages are sequences of one-character strings.  A completion-service  *)
(* response to the analysis prompt is a sequence of lexemes (Tok), the     *)
(* grain at which the code-fence regex, the brace regex and json.loads     *)
(* look at it.                                                             *)
(*                                                                         *)
(* Python values are records PyV with a kind k; None is also written as    *)
(* the empty option <<>> where a field holds "a value or None".            *)
(***************************************************************************)
EXTENDS Integers, Sequences, FiniteSets, TLC

VARIABLES
    analysis_result,      \* st.session_state.analysis_result : option of PyV
    transcript_text,      \* st.session_state.transcript_text : option of text
    raw_transcript_text,  \* st.session_state.raw_transcript_text : option of text
    metrics,              \* st.session_state.metrics : option of record
    chat_messages,        \* st.session_state.chat_messages : sequence of turns
    api_key_set,          \* "GOOGLE_API_KEY" in os.environ
    calls,                \* number of model.generate_content calls made so far
    op,                   \* the operation that ran last ("none" before any)
    args,                 \* the inputs of that operation
    ret                   \* what that operation produced

vars == <<analysis_result, transcript_text, raw_transcript_text, metrics,
          chat_messages, api_key_set, calls, op, args, ret>>

session == <<analysis_result, transcript_text, raw_transcript_text, metrics,
             chat_messages, api_key_set>>

(***************************************************************************)
(* Options and generic sequence helpers                                    *)
(***************************************************************************)
None == <<>>

Some(x) == <<x>>

SeqRange(s) == {s[i] : i \in 1..Len(s)}

RECURSIVE JoinWith(_, _)
JoinWith(sep, ss) ==
    IF ss = <<>> THEN <<>>
    ELSE IF Len(ss) = 1 THEN ss[1]
    ELSE ss[1] \o sep \o JoinWith(sep, Tail(ss))

(***************************************************************************)
(* Python values                                                           *)
(***************************************************************************)
PyV(k, n, s, items, fields, txt) ==
    [k |-> k, n |-> n, s |-> s, items |-> items, fields |-> fields, txt |-> txt]

PyNone == PyV("none", 0, "", <<>>, <<>>, <<>>)

PyBool(b) == PyV("bool", IF b THEN 1 ELSE 0, "", <<>>, <<>>, <<>>)

PyInt(n) == PyV("int", n, "", <<>>, <<>>, <<>>)

\* a str given by a literal
PyStr(s) == PyV("str", 0, s, <<>>, <<>>, <<>>)

\* a str holding a response text
PyText(t) == PyV("text", 0, "", <<>>, <<>>, t)

PyList(items) == PyV("list", 0, "", items, <<>>, <<>>)

\* a dict: its (key, value) pairs in insertion order
PyDict(fields) == PyV("dict", 0, "", <<>>, fields, <<>>)

KV(key, val) == [key |-> key, val |-> val]

IsDict(v) == v.k = "dict"

IsList(v) == v.k = "list"

\* key in d
HasKey(d, key) == \E i \in 1..Len(d.fields) : d.fields[i].key = key

\* d.get(key): the value, or None
DictGet(d, key) ==
    IF HasKey(d, key)
    THEN (CHOOSE p \in SeqRange(d.fields) : p.key = key).val
    ELSE PyNone

\* d[key] = val
DictSet(d, key, val) ==
    IF HasKey(d, key)
    THEN LET i == CHOOSE j \in 1..Len(d.fields) : d.fields[j].key = key
         IN  PyDict(SubSeq(d.fields, 1, i - 1) \o << KV(key, val) >>
                    \o SubSeq(d.fields, i + 1, Len(d.fields)))
    ELSE PyDict(Append(d.fields, KV(key, val)))

(***************************************************************************)
(* Response texts of the completion service, as lexemes                    *)
(***************************************************************************)
Tok(t, v, n) == [t |-> t, v |-> v, n |-> n]

\* one of { } [ ] : ,
P(c) == Tok("punct", c, 0)

\* a JSON string literal "..."
S(v) == Tok("str", v, 0)

\* an integer literal
N(n) == Tok("num", "", n)

\* null, true, false
L(v) == Tok("lit", v, 0)

\* a run of blanks or newlines
WS == Tok("ws", " ", 0)

\* a code-fence delimiter: three backquotes, v the language tag "json" or ""
Fence(v) == Tok("fence", v, 0)

\* a word of prose
W(v) == Tok("word", v, 0)

\* str.strip() on a response text
RECURSIVE LStrip(_)
LStrip(text) ==
    IF text # <<>> /\ Head(text).t = "ws" THEN LStrip(Tail(text)) ELSE text

RECURSIVE RStrip(_)
RStrip(text) ==
    IF text # <<>> /\ text[Len(text)].t = "ws"
    THEN RStrip(SubSeq(text, 1, Len(text) - 1))
    ELSE text

Strip(text) == RStrip(LStrip(text))

IsFence(tok) == tok.t = "fence"

_strip_code_fences(text) ==
    IF text = <<>> THEN <<>>
    ELSE Strip(SelectSeq(Strip(text), LAMBDA tok : ~IsFence(tok)))

\* re.search(r"\{[\s\S]*\}", cleaned): the leftmost "{" through the last "}"
BraceMatch(cleaned) ==
    LET opens  == {i \in 1..Len(cleaned) : cleaned[i] = P("{")}
        closes == {j \in 1..Len(cleaned) : cleaned[j] = P("}")}
    IN  IF opens = {} \/ closes = {} THEN None
        ELSE LET i == CHOOSE a \in opens : \A b \in opens : a <= b
                 j == CHOOSE a \in closes : \A b \in closes : a >= b
             IN  IF j > i THEN Some(SubSeq(cleaned, i, j)) ELSE None

_extract_first_json(text) ==
    LET cleaned == _strip_code_fences(text)
        match   == BraceMatch(cleaned)
    IN  IF match # None
        THEN [json_text |-> Strip(match[1]), cleaned |-> cleaned]
        ELSE [json_text |-> Strip(cleaned), cleaned |-> cleaned]

(***************************************************************************)
(* json.loads over lexemes: the grammar of JSON values, the whole text     *)
(* consumed; the descent follows the nesting of the text                   *)
(***************************************************************************)
ParseFail == [ok |-> FALSE, val |-> PyNone]

ParseOk(val) == [ok |-> TRUE, val |-> val]

IsOpen(tok) == tok = P("[") \/ tok = P("{")

IsClose(tok) == tok = P("]") \/ tok = P("}")

\* how many brackets and braces are open just before position i
Level(toks, i) ==
    Cardinality({k \in 1..(i - 1) : IsOpen(toks[k])})
    - Cardinality({k \in 1..(i - 1) : IsClose(toks[k])})

\* toks[a] opens a container that toks[b], and nothing before it, closes
Encloses(toks, a, b) ==
    /\ a < b
    /\ Level(toks, b + 1) = Level(toks, a)
    /\ \A k \in a..(b - 1) : Level(toks, k + 1) > Level(toks, a)

\* the commas that separate the items of the container opened at a, closed at b
ItemCommas(toks, a, b) ==
    {k \in (a + 1)..(b - 1) : toks[k] = P(",") /\ Level(toks, k) = Level(toks, a) + 1}

\* the spans [from, to] of the items of that container, in order
ItemSpans(toks, a, b) ==
    LET cuts   == ItemCommas(toks, a, b) \cup {a, b}
        nth(n) == CHOOSE x \in cuts : Cardinality({y \in cuts : y < x}) = n - 1
    IN  [n \in 1..(Cardinality(cuts) - 1) |->
            [from |-> nth(n) + 1, to |-> nth(n + 1) - 1]]

\* the dict of the members in order: a repeated key keeps its first position
\* and takes the last value, as dict does
DictOfPairs(pairs) ==
    LET n        == Len(pairs)
        first(i) == \A j \in 1..(i - 1) : pairs[j].key # pairs[i].key
        last(i)  == CHOOSE j \in i..n :
                        /\ pairs[j].key = pairs[i].key
                        /\ \A k \in (j + 1)..n : pairs[k].key # pairs[i].key
        kept     == SelectSeq([i \in 1..n |-> i], first)
    IN  PyDict([m \in 1..Len(kept) |-> KV(pairs[kept[m]].key, pairs[last(kept[m])].val)])

RECURSIVE ParseValue(_, _, _)
RECURSIVE ParseElems(_, _, _)
RECURSIVE ParseMembers(_, _, _)

\* the value written by toks[a..b], toks holding no whitespace
ParseValue(toks, a, b) ==
    IF a > b THEN ParseFail
    ELSE IF a = b
    THEN LET tok == toks[a]
         IN  CASE tok.t = "str" -> ParseOk(PyStr(tok.v))
               [] tok.t = "num" -> ParseOk(PyInt(tok.n))
               [] tok = L("null") -> ParseOk(PyNone)
               [] tok = L("true") -> ParseOk(PyBool(TRUE))
               [] tok = L("false") -> ParseOk(PyBool(FALSE))
               [] OTHER -> ParseFail
    ELSE IF toks[a] = P("[") /\ toks[b] = P("]") /\ Encloses(toks, a, b)
    THEN ParseElems(toks, a, b)
    ELSE IF toks[a] = P("{") /\ toks[b] = P("}") /\ Encloses(toks, a, b)
    THEN ParseMembers(toks, a, b)
    ELSE ParseFail

ParseElems(toks, a, b) ==
    IF b = a + 1 THEN ParseOk(PyList(<<>>))
    ELSE LET spans == ItemSpans(toks, a, b)
             got   == [n \in 1..Len(spans) |->
                          ParseValue(toks, spans[n].from, spans[n].to)]
         IN  IF \E n \in 1..Len(got) : ~got[n].ok THEN ParseFail
             ELSE ParseOk(PyList([n \in 1..Len(got) |-> got[n].val]))

ParseMembers(toks, a, b) ==
    IF b = a + 1 THEN ParseOk(PyDict(<<>>))
    ELSE LET spans  == ItemSpans(toks, a, b)
             keyed  == \A n \in 1..Len(spans) :
                          /\ spans[n].from + 1 <= spans[n].to
                          /\ toks[spans[n].from].t = "str"
                          /\ toks[spans[n].from + 1] = P(":")
             got    == [n \in 1..Len(spans) |->
                          ParseValue(toks, spans[n].from + 2, spans[n].to)]
         IN  IF ~keyed \/ \E n \in 1..Len(got) : ~got[n].ok THEN ParseFail
             ELSE ParseOk(DictOfPairs([n \in 1..Len(got) |->
                                          KV(toks[spans[n].from].v, got[n].val)]))

\* json.loads(json_text): [ok, val]; ok = FALSE stands for JSONDecodeError
json_loads(json_text) ==
    LET toks == SelectSeq(json_text, LAMBDA tok : tok.t # "ws")
    IN  ParseValue(toks, 1, Len(toks))

(***************************************************************************)
(* _ensure_analysis_keys                                                   *)
(***************************************************************************)
ClientIntentDefaults ==
    PyDict(<< KV("occasion", PyStr("")),
              KV("date_mentions", PyList(<<>>)),
              KV("decision_timing", PyStr("")),
              KV("primary_motivation", PyStr("")) >>)

ConsultScorecardDefaults ==
    PyDict(<< KV("authority_and_leadership", PyInt(0)),
              KV("aesthetic_alignment", PyInt(0)),
              KV("constraint_setting", PyInt(0)),
              KV("package_pricing_clarity", PyInt(0)),
              KV("hesitation_handling", PyInt(0)),
              KV("decision_safety", PyInt(0)),
              KV("next_steps_locked", PyInt(0)) >>)

defaults ==
    PyDict(<< KV("summary", PyStr("")),
              KV("topics", PyList(<<>>)),
              KV("sentiment_score", PyInt(0)),
              KV("strengths", PyList(<<>>)),
              KV("improvements", PyList(<<>>)),
              KV("coaching_tips", PyList(<<>>)),
              KV("client_intent", ClientIntentDefaults),
              KV("consult_scorecard", ConsultScorecardDefaults),
              KV("conversion_risks", PyList(<<>>)),
              KV("missed_questions", PyList(<<>>)),
              KV("recommended_micro_scripts", PyList(<<>>)),
              KV("timeline", PyList(<<>>)) >>)

\* key not in d or d[key] is None
MissingOrNone(d, key) == ~HasKey(d, key) \/ DictGet(d, key) = PyNone

\* the fill loop assigning the default to every key of defs, present or not
fill_overwriting(d, defs) ==
    LET given == [i \in 1..Len(d.fields) |->
                     IF HasKey(defs, d.fields[i].key)
                     THEN KV(d.fields[i].key, DictGet(defs, d.fields[i].key))
                     ELSE d.fields[i]]
        added == SelectSeq(defs.fields, LAMBDA e : ~HasKey(d, e.key))
    IN  PyDict(given \o added)

\* for key, value in defs.items(): if key not in d or d[key] is None: d[key] = value
\* (an assignment to a key that is there keeps its place; a new key goes last)
FillDefaults(d, defs) ==
    LET given == [i \in 1..Len(d.fields) |->
                     IF d.fields[i].val = PyNone /\ HasKey(defs, d.fields[i].key)
                     THEN KV(d.fields[i].key, DictGet(defs, d.fields[i].key))
                     ELSE d.fields[i]]
        added == SelectSeq(defs.fields, LAMBDA e : ~HasKey(d, e.key))
    IN  PyDict(given \o added)

\* the sub-record step replacing by the defaults a sub-record that lacks
\* nothing, and filling one that lacks something
sub_record_reset_when_complete(data, key) ==
    IF ~IsDict(DictGet(data, key))
    THEN DictSet(data, key, DictGet(defaults, key))
    ELSE IF FillDefaults(DictGet(data, key), DictGet(defaults, key)) = DictGet(data, key)
    THEN DictSet(data, key, DictGet(defaults, key))
    ELSE DictSet(data, key, FillDefaults(DictGet(data, key), DictGet(defaults, key)))

\* the client_intent / consult_scorecard step: a non-dict is replaced whole
EnsureSubRecord(data, key) ==
    IF ~IsDict(DictGet(data, key))
    THEN DictSet(data, key, DictGet(defaults, key))
    ELSE DictSet(data, key, FillDefaults(DictGet(data, key), DictGet(defaults, key)))

ListKeys ==
    << "topics", "strengths", "improvements", "coaching_tips", "conversion_risks",
       "missed_questions", "recommended_micro_scripts", "timeline" >>

\* if not isinstance(data.get(key), list): data[key] = defaults[key]
NeedsList(data, key) == ~IsList(DictGet(data, key))

\* the eight list checks, each on a key of its own
EnsureLists(data) ==
    LET given == [i \in 1..Len(data.fields) |->
                     IF /\ data.fields[i].key \in SeqRange(ListKeys)
                        /\ NeedsList(data, data.fields[i].key)
                     THEN KV(data.fields[i].key, DictGet(defaults, data.fields[i].key))
                     ELSE data.fields[i]]
        added == SelectSeq(ListKeys, LAMBDA key : ~HasKey(data, key))
    IN  PyDict(given \o [i \in 1..Len(added) |-> KV(added[i], DictGet(defaults, added[i]))])

_ensure_analysis_keys(data) ==
    IF ~IsDict(data) THEN data
    ELSE LET d1 == FillDefaults(data, defaults)
             d2 == EnsureSubRecord(d1, "client_intent")
             d3 == EnsureSubRecord(d2, "consult_scorecard")
         IN  EnsureLists(d3)

(***************************************************************************)
(* analyze_call                                                            *)
(***************************************************************************)
\* what a call of the library or of the completion service can do
Returned(val) == [kind |-> "return", val |-> val]

Raised(msg) == [kind |-> "raise", val |-> PyStr(msg)]

\* get_gemini_client(api_key, model_name): genai.configure and GenerativeModel
\* either give a model or raise; client_ok says which
get_gemini_client(client_ok) ==
    IF client_ok THEN Returned(PyStr("model")) ELSE Raised("client error")

\* the except branch: {"error": f"{e}", "raw_response": text_response or ""}
ErrorValue(msg, raw) ==
    PyDict(<< KV("error", PyStr(msg)), KV("raw_response", PyText(raw)) >>)

\* analyze_call calling the completion service a second time when the first
\* call fails
analyze_call_retrying(client_ok, llm) ==
    IF get_gemini_client(client_ok).kind = "raise"
    THEN [out |-> Raised("client error"), ncalls |-> 0]
    ELSE IF llm.kind = "fail"
    THEN [out |-> Returned(ErrorValue("completion failed", <<>>)), ncalls |-> 2]
    ELSE LET parsed == json_loads(_extract_first_json(llm.text).json_text)
         IN  IF ~parsed.ok
             THEN [out |-> Returned(ErrorValue("JSONDecodeError", llm.text)),
                   ncalls |-> 1]
             ELSE [out |-> Returned(_ensure_analysis_keys(parsed.val)), ncalls |-> 1]

\* llm is what model.generate_content(prompt) / response.text does:
\* [kind |-> "fail"], or [kind |-> "text", text |-> the response text].
\* The result is what analyze_call does and how many completion calls it made.
analyze_call(client_ok, llm) ==
    IF get_gemini_client(client_ok).kind = "raise"
    THEN [out |-> Raised("client error"), ncalls |-> 0]
    ELSE IF llm.kind = "fail"
    THEN [out |-> Returned(ErrorValue("completion failed", <<>>)), ncalls |-> 1]
    ELSE LET text_response == llm.text
             json_text     == _extract_first_json(text_response).json_text
             parsed        == json_loads(json_text)
         IN  IF ~parsed.ok
             THEN [out |-> Returned(ErrorValue("JSONDecodeError", text_response)),
                   ncalls |-> 1]
             ELSE [out |-> Returned(_ensure_analysis_keys(parsed.val)), ncalls |-> 1]

(***************************************************************************)
(* Character text: transcripts, questions, chat messages                   *)
(***************************************************************************)
Digits == {"0", "1", "2", "3", "4", "5", "6", "7", "8", "9"}

Whitespace == {" ", "\t", "\n"}

IsSpaceChar(c) == c \in Whitespace

\* the positions of t that hold no whitespace
InkAt(t) == {i \in 1..Len(t) : ~IsSpaceChar(t[i])}

Least(positions) == CHOOSE i \in positions : \A j \in positions : i <= j

Greatest(positions) == CHOOSE i \in positions : \A j \in positions : i >= j

\* str.lstrip(), str.rstrip() and str.strip() on character text
LStripChars(t) ==
    IF InkAt(t) = {} THEN <<>> ELSE SubSeq(t, Least(InkAt(t)), Len(t))

RStripChars(t) ==
    IF InkAt(t) = {} THEN <<>> ELSE SubSeq(t, 1, Greatest(InkAt(t)))

StripChars(t) == RStripChars(LStripChars(t))

\* the maximal runs, in order, of the characters of t that are in chars
Runs(t, chars) ==
    LET starts == {i \in 1..Len(t) :
                      t[i] \in chars /\ (i = 1 \/ t[i - 1] \notin chars)}
        ends   == {i \in 1..Len(t) :
                      t[i] \in chars /\ (i = Len(t) \/ t[i + 1] \notin chars)}
        Nth(positions, k) ==
            CHOOSE i \in positions : Cardinality({j \in positions : j < i}) = k - 1
    IN  [k \in 1..Cardinality(starts) |-> SubSeq(t, Nth(starts, k), Nth(ends, k))]

\* str.isdigit(): not empty and digits only
IsDigitStr(t) == t # <<>> /\ \A i \in 1..Len(t) : t[i] \in Digits

\* needle in hay
Contains(hay, needle) ==
    \E i \in 0..(Len(hay) - Len(needle)) :
        SubSeq(hay, i + 1, i + Len(needle)) = needle

\* hay.startswith(prefix)
StartsWith(hay, prefix) ==
    Len(hay) >= Len(prefix) /\ SubSeq(hay, 1, Len(prefix)) = prefix

\* content.splitlines(), "\n" being the only line break of the alphabet:
\* every line break ends a line, and so does the end of a text that does not
\* end in a line break
splitlines(content) ==
    LET stops == {i \in 1..Len(content) : content[i] = "\n"}
                 \cup (IF content # <<>> /\ content[Len(content)] # "\n"
                       THEN {Len(content) + 1} ELSE {})
        Nth(k) == CHOOSE i \in stops : Cardinality({j \in stops : j < i}) = k - 1
        StartOf(k) == IF k = 1 THEN 1 ELSE Nth(k - 1) + 1
    IN  [k \in 1..Cardinality(stops) |-> SubSeq(content, StartOf(k), Nth(k) - 1)]

(***************************************************************************)
(* utils/parsers.py                                                        *)
(***************************************************************************)
\* \d{2}:\d{2}:\d{2}<sep>\d{3}, one pattern item per character: "\\d" a
\* digit, "\\s" a whitespace character, anything else itself
StampPattern(sep) ==
    << "\\d", "\\d", ":", "\\d", "\\d", ":", "\\d", "\\d", sep, "\\d", "\\d", "\\d" >>

\* the timestamp_pattern of parse_vtt (sep ".") and of parse_srt (sep ",")
timestamp_pattern(sep) ==
    StampPattern(sep) \o << "\\s", "-", "-", ">", "\\s" >> \o StampPattern(sep)

ItemMatches(item, c) ==
    CASE item = "\\d" -> c \in Digits
      [] item = "\\s" -> IsSpaceChar(c)
      [] OTHER -> c = item

\* pattern.match(line): the pattern matches at the start of line
PatternMatch(pattern, line) ==
    /\ Len(line) >= Len(pattern)
    /\ \A i \in 1..Len(pattern) : ItemMatches(pattern[i], line[i])

WEBVTT == << "W", "E", "B", "V", "T", "T" >>

\* the tests of the loop of parse_vtt: TRUE when the line is skipped
VttSkips(line) ==
    \/ Contains(line, WEBVTT)
    \/ StripChars(line) = <<>>
    \/ PatternMatch(timestamp_pattern("."), line)
    \/ IsDigitStr(StripChars(line))

\* the tests of the loop of parse_srt
SrtSkips(line) ==
    \/ StripChars(line) = <<>>
    \/ IsDigitStr(StripChars(line))
    \/ PatternMatch(timestamp_pattern(","), line)

\* line.strip() of every line of lines
StripAll(lines) == [i \in 1..Len(lines) |-> StripChars(lines[i])]

\* text_content after the loop: the kept lines, stripped, in order
VttPieces(lines) == StripAll(SelectSeq(lines, LAMBDA line : ~VttSkips(line)))

SrtPieces(lines) == StripAll(SelectSeq(lines, LAMBDA line : ~SrtSkips(line)))

parse_txt(content) == content

parse_vtt(content) == JoinWith(<< " " >>, VttPieces(splitlines(content)))

parse_srt(content) == JoinWith(<< " " >>, SrtPieces(splitlines(content)))

\* parse_transcript on decoded content: (clean_text, content), or ValueError
parse_transcript(content, file_extension) ==
    CASE file_extension = "txt" ->
            [kind |-> "return", clean_text |-> parse_txt(content), raw |-> content]
      [] file_extension = "vtt" ->
            [kind |-> "return", clean_text |-> parse_vtt(content), raw |-> content]
      [] file_extension = "srt" ->
            [kind |-> "return", clean_text |-> parse_srt(content), raw |-> content]
      [] OTHER -> [kind |-> "raise", clean_text |-> <<>>, raw |-> <<>>]

(***************************************************************************)
(* utils/text_analysis.py                                                  *)
(***************************************************************************)
\* transcript_text.split(): the maximal runs of non-whitespace characters
split(t) == Runs(t, SeqRange(t) \ Whitespace)

WordsPerMinute == 140

\* the duration cut to two decimals instead of rounded
truncated_hundredths(word_count) == (100 * word_count) \div WordsPerMinute

\* round(word_count / 140, 2), in hundredths of a minute; 100 * n / 140 is
\* never halfway between two integers, so rounding is to the nearest
RoundedHundredths(word_count) ==
    (2 * 100 * word_count + WordsPerMinute) \div (2 * WordsPerMinute)

calculate_metrics(transcript) ==
    LET word_count == Len(split(transcript))
    IN  [word_count |-> word_count,
         estimated_duration_hundredths |-> RoundedHundredths(word_count)]

(***************************************************************************)
(* _question_supported_by_transcript                                       *)
(***************************************************************************)
UpperLetters ==
    << "A", "B", "C", "D", "E", "F", "G", "H", "I", "J", "K", "L", "M",
       "N", "O", "P", "Q", "R", "S", "T", "U", "V", "W", "X", "Y", "Z" >>

LowerLetters ==
    << "a", "b", "c", "d", "e", "f", "g", "h", "i", "j", "k", "l", "m",
       "n", "o", "p", "q", "r", "s", "t", "u", "v", "w", "x", "y", "z" >>

\* the lowercase letter of each uppercase letter
LowerOf ==
    [c \in SeqRange(UpperLetters) |->
        LowerLetters[CHOOSE i \in 1..Len(UpperLetters) : UpperLetters[i] = c]]

LowerChar(c) == IF c \in DOMAIN LowerOf THEN LowerOf[c] ELSE c

\* str.lower()
lower(t) == [i \in 1..Len(t) |-> LowerChar(t[i])]

\* the character class [a-z0-9']
WordChars == SeqRange(LowerLetters) \cup Digits \cup {"'"}

\* re.findall(r"[a-z0-9']+", t): the maximal runs of word characters
findall_words(t) == Runs(t, WordChars)

stopwords ==
    {
      << "a" >>, << "a", "n" >>, << "a", "n", "d" >>, << "a", "r", "e" >>,
      << "a", "s" >>, << "a", "t" >>, << "b", "e" >>, << "b", "u", "t" >>,
      << "b", "y" >>, << "d", "i", "d" >>, << "d", "o" >>,
      << "d", "o", "e", "s" >>, << "f", "o", "r" >>,
      << "f", "r", "o", "m" >>, << "h", "a", "d" >>, << "h", "a", "s" >>,
      << "h", "a", "v", "e" >>, << "h", "e" >>, << "h", "e", "r" >>,
      << "h", "e", "r", "s" >>, << "h", "i", "m" >>, << "h", "i", "s" >>,
      << "i" >>, << "i", "f" >>, << "i", "n" >>, << "i", "s" >>,
      << "i", "t" >>, << "i", "t", "s" >>, << "m", "e" >>, << "m", "y" >>,
      << "n", "o", "t" >>, << "o", "f" >>, << "o", "n" >>, << "o", "r" >>,
      << "o", "u", "r" >>, << "s", "h", "e" >>, << "s", "o" >>,
      << "t", "h", "a", "t" >>, << "t", "h", "e" >>,
      << "t", "h", "e", "i", "r" >>, << "t", "h", "e", "m" >>,
      << "t", "h", "e", "y" >>, << "t", "h", "i", "s" >>, << "t", "o" >>,
      << "w", "a", "s" >>, << "w", "e" >>, << "w", "e", "r", "e" >>,
      << "w", "h", "a", "t" >>, << "w", "h", "e", "n" >>,
      << "w", "h", "e", "r", "e" >>, << "w", "h", "o" >>,
      << "w", "h", "y" >>, << "w", "i", "l", "l" >>,
      << "w", "i", "t", "h" >>, << "y", "o", "u" >>,
      << "y", "o", "u", "r" >> }

MinKeywordLen == 2

\* [w for w in words if w not in stopwords and len(w) > 2]
keywords_of(question) ==
    SelectSeq(findall_words(lower(question)),
              LAMBDA w : w \notin stopwords /\ Len(w) > MinKeywordLen)

\* the gate with every word of the question tried against the transcript,
\* stop-words and short words included
question_supported_by_any_word(transcript, question) ==
    IF transcript = <<>> \/ question = <<>> THEN FALSE
    ELSE LET transcript_lower == lower(transcript)
             words == findall_words(lower(question))
         IN  IF keywords_of(question) = <<>> THEN TRUE
             ELSE \E i \in 1..Len(words) : Contains(transcript_lower, words[i])

\* the gate refusing a question that has no keyword
question_supported_needs_keyword(transcript, question) ==
    IF transcript = <<>> \/ question = <<>> THEN FALSE
    ELSE LET transcript_lower == lower(transcript)
             keywords == keywords_of(question)
         IN  IF keywords = <<>> THEN FALSE
             ELSE \E i \in 1..Len(keywords) : Contains(transcript_lower, keywords[i])

_question_supported_by_transcript(transcript, question) ==
    IF transcript = <<>> \/ question = <<>> THEN FALSE
    ELSE LET transcript_lower == lower(transcript)
             keywords == keywords_of(question)
         IN  IF keywords = <<>> THEN TRUE
             ELSE \E i \in 1..Len(keywords) : Contains(transcript_lower, keywords[i])

(***************************************************************************)
(* chat_with_coach                                                         *)
(***************************************************************************)
\* a chat message: role, content (a text or None), parts (a list of texts or
\* None)
Msg(role, content, parts) == [role |-> role, content |-> content, parts |-> parts]

\* the message app.py appends: {"role": role, "content": text}
Turn(role, text) == Msg(role, Some(text), None)

Refusal == << "T", "h", "a", "t", " ", "i", "s", "n", "'", "t", " ", "i", "n", " ", "t", "h", "e", " ", "t", "r", "a", "n", "s", "c", "r", "i", "p", "t", "." >>

UserPrefix == << "U", "s", "e", "r", ":" >>

UserLine(content) == UserPrefix \o << " " >> \o content

CoachLine(content) == << "C", "o", "a", "c", "h", ":", " " >> \o content

\* a text-or-None that is neither None nor ""
Truthy(content) == content # None /\ content[1] # <<>>

\* content = msg.get("content"), or msg["parts"][0] when content is empty and
\* parts is a non-empty list
ContentOf(msg) ==
    IF ~Truthy(msg.content) /\ msg.parts # None /\ msg.parts[1] # <<>>
    THEN Some(msg.parts[1][1])
    ELSE msg.content

\* the loop over history
RECURSIVE HistoryLines(_)
HistoryLines(history) ==
    IF history = <<>> THEN <<>>
    ELSE LET msg == Head(history)
             content == ContentOf(msg)
             line == IF ~Truthy(content) THEN <<>>
                     ELSE IF msg.role = "user" THEN << UserLine(content[1]) >>
                     ELSE IF msg.role = "assistant" THEN << CoachLine(content[1]) >>
                     ELSE <<>>
         IN  line \o HistoryLines(Tail(history))

\* the "if user_input:" block: whether the question gets its own line
AppendsQuestion(history, history_lines, user_input) ==
    IF history_lines = <<>>
       \/ ~StartsWith(history_lines[Len(history_lines)], UserPrefix)
    THEN TRUE
    ELSE LET last_user == IF history # <<>> THEN history[Len(history)].content
                          ELSE None
         IN  last_user # Some(user_input)

\* history_lines as joined into the prompt
conversation_lines(history, user_input) ==
    LET history_lines == HistoryLines(history)
    IN  IF user_input # <<>> /\ AppendsQuestion(history, history_lines, user_input)
        THEN Append(history_lines, UserLine(user_input))
        ELSE history_lines

\* conversation = "\n".join(history_lines).strip()
conversation(history_lines) == StripChars(JoinWith(<< "\n" >>, history_lines))

\* llm is what model.generate_content(system_context) does.  The result: what
\* chat_with_coach does, the completion calls it made and the conversation
\* lines of each prompt it sent.
chat_with_coach(client_ok, transcript, history, user_input, llm) ==
    IF get_gemini_client(client_ok).kind = "raise"
    THEN [out |-> Raised("client error"), ncalls |-> 0, sent |-> <<>>]
    ELSE IF ~_question_supported_by_transcript(transcript, user_input)
    THEN [out |-> Returned(PyText(Refusal)), ncalls |-> 0, sent |-> <<>>]
    ELSE LET history_lines == conversation_lines(history, user_input)
             prompt == [transcript |-> transcript,
                        lines |-> history_lines,
                        conversation |-> conversation(history_lines)]
         IN  IF llm.kind = "fail"
             THEN [out |-> Raised("completion failed"), ncalls |-> 1,
                   sent |-> << prompt >>]
             ELSE [out |-> Returned(PyText(llm.text)), ncalls |-> 1,
                   sent |-> << prompt >>]

(***************************************************************************)
(* Response texts the completion service is given to answer with          *)
(***************************************************************************)
\* a member of a JSON object: its key and the lexemes of its value
M(key, toks) == [key |-> key, toks |-> toks]

MemberToks(m) == << S(m.key), P(":"), WS >> \o m.toks

\* the lexemes of the JSON object with members ms
ObjToks(ms) ==
    << P("{") >>
    \o JoinWith(<< P(","), WS >>, [i \in 1..Len(ms) |-> MemberToks(ms[i])])
    \o << P("}") >>

\* the lexemes of the JSON list with elements es
ListToks(es) == << P("[") >> \o JoinWith(<< P(","), WS >>, es) \o << P("]") >>

\* the ways the model may give (or leave out) each field; <<>> leaves it out
SummaryForms == { <<>>, << M("summary", << L("null") >>) >>,
                  << M("summary", << S("ok") >>) >> }

TopicsForms == { <<>>, << M("topics", << L("null") >>) >>,
                 << M("topics", ListToks(<< << S("pricing") >>, << S("trial") >> >>)) >>,
                 << M("topics", << S("pricing") >>) >> }

SentimentForms == { <<>>, << M("sentiment_score", << N(85) >>) >> }

ClientIntentForms ==
    { <<>>,
      << M("client_intent", << L("null") >>) >>,
      << M("client_intent", ObjToks(<< M("occasion", << S("wedding") >>) >>)) >>,
      << M("client_intent",
           ObjToks(<< M("occasion", << L("null") >>),
                      M("date_mentions", ListToks(<< << S("June 5") >> >>)) >>)) >>,
      << M("client_intent", << S("unknown") >>) >> }

ScorecardForms ==
    { <<>>,
      << M("consult_scorecard",
           ObjToks(<< M("authority_and_leadership", << N(7) >>),
                      M("decision_safety", << L("null") >>) >>)) >>,
      << M("consult_scorecard", << N(5) >>) >>,
      << M("consult_scorecard", ListToks(<< << N(1) >> >>)) >> }

ExtraForms == { <<>>, << M("notes", << S("n/a") >>) >>,
                << M("error", << S("none") >>) >> }

ObjectBodies ==
    { ObjToks(a \o b \o c \o d \o e \o f) :
        a \in SummaryForms, b \in TopicsForms, c \in SentimentForms,
        d \in ClientIntentForms, e \in ScorecardForms, f \in ExtraForms }

\* responses that hold no JSON object, or not only one
OtherBodies ==
    { <<>>,
      << WS >>,
      << W("Sorry"), WS, W("no") >>,
      << N(42) >>,
      << S("hello") >>,
      << L("null") >>,
      << L("true") >>,
      ListToks(<< << N(1) >>, << N(2) >> >>),
      ListToks(<<>>),
      ListToks(<< ObjToks(<< M("summary", << S("ok") >>) >>) >>),
      ListToks(<< ObjToks(<< M("summary", << S("a") >>) >>),
                  ObjToks(<< M("summary", << S("b") >>) >>) >>),
      << P("{"), S("summary"), P(":") >>,
      << P("}"), WS, P("{") >>,
      << P("{"), W("oops"), P("}") >>,
      ObjToks(<< M("summary", << S("ok") >>) >>) \o << WS, W("done") >>,
      ObjToks(<< M("summary", << S("ok") >>) >>) \o << WS, W("see"), P("}") >> }

\* objects whose values are not what the prompt asks for
OutOfDomainBodies ==
    { ObjToks(<< M("summary", << N(5) >>) >>),
      ObjToks(<< M("sentiment_score", << N(250) >>) >>),
      ObjToks(<< M("sentiment_score", << S("high") >>) >>),
      ObjToks(<< M("consult_scorecard",
                   ObjToks(<< M("authority_and_leadership", << N(11) >>) >>)) >>),
      ObjToks(<< M("conversion_risks",
                   ListToks(<< ObjToks(<< M("label", << S("price") >>),
                                          M("severity", << S("severe") >>) >>) >>)) >>),
      ObjToks(<< M("missed_questions", ListToks(<< << S("budget range") >> >>)) >>),
      ObjToks(<< M("missed_questions", ListToks(<< << S("favourite colour") >> >>)) >>) }

Bodies == ObjectBodies \cup OutOfDomainBodies \cup OtherBodies

\* how the model may wrap its answer
Wrappings(body) ==
    { body,
      << Fence("json"), WS >> \o body \o << WS, Fence("") >>,
      << Fence(""), WS >> \o body \o << WS, Fence(""), WS >>,
      << W("Here"), WS, W("it"), WS, W("is"), WS >> \o body }

Responses == UNION { Wrappings(body) : body \in Bodies }

LLMOutcomes == { [kind |-> "fail", text |-> <<>>] }
               \cup { [kind |-> "text", text |-> t] : t \in Responses }

(***************************************************************************)
(* State machines                                                          *)
(***************************************************************************)
NoRet == [kind |-> "none", val |-> PyNone]

\* the session as app.py initialises it, nothing run yet
SessionInit ==
    /\ analysis_result = None
    /\ transcript_text = None
    /\ raw_transcript_text = None
    /\ metrics = None
    /\ chat_messages = <<>>
    /\ api_key_set = FALSE
    /\ calls = 0
    /\ ret = NoRet

\* analyze_call on drawn inputs
InitAnalyze ==
    /\ SessionInit
    /\ op = "pending"
    /\ args \in [client_ok : BOOLEAN, llm : LLMOutcomes]

AnalyzeCall ==
    /\ op = "pending"
    /\ LET r == analyze_call(args.client_ok, args.llm)
       IN  /\ ret' = r.out
           /\ calls' = calls + r.ncalls
    /\ op' = "analyze_call"
    /\ UNCHANGED <<session, args>>

NextAnalyze == AnalyzeCall

SpecAnalyze == InitAnalyze /\ [][NextAnalyze]_vars

(***************************************************************************)
(* The parsers and the metrics on drawn files                              *)
(***************************************************************************)
Stamp(sep) == << "0", "0", ":", "0", "0", ":", "0", "2", sep, "0", "0", "0" >>

\* a cue-timing line, sep "." (vtt) or "," (srt)
Cue(sep) == Stamp(sep) \o << " ", "-", "-", ">", " " >> \o Stamp(sep)

HelloThere == << "H", "e", "l", "l", "o", " ", "t", "h", "e", "r", "e" >>

HowAreYou == << "H", "o", "w", " ", "a", "r", "e", " ", "y", "o", "u" >>

\* the lines files are made of
LineVocabulary ==
    { <<>>,
      << " " >>,
      WEBVTT,
      << "1" >>,
      << "1", "2", " " >>,
      Cue("."),
      Cue(","),
      << " " >> \o Cue("."),
      << "\t" >> \o Cue(","),
      HelloThere,
      << "s", "e", "e", " " >> \o WEBVTT,
      << "2", " ", "p", "m" >> }

MaxLines == 3

LineLists == UNION { [1..n -> LineVocabulary] : n \in 0..MaxLines }

\* the VTT file of the spec's scenario
SampleVtt ==
    JoinWith(<< "\n" >>,
             << WEBVTT, <<>>, << "1" >>, Cue("."), HelloThere, <<>>,
                << "2" >>, Cue("."), HowAreYou >>)

Contents == { JoinWith(<< "\n" >>, ls) : ls \in LineLists } \cup { SampleVtt }

Extensions == { "txt", "vtt", "srt", "pdf" }

\* the list text_content that parse_vtt / parse_srt joins
text_content(content, file_extension) ==
    CASE file_extension = "vtt" -> VttPieces(splitlines(content))
      [] file_extension = "srt" -> SrtPieces(splitlines(content))
      [] OTHER -> << content >>

InitParse ==
    /\ SessionInit
    /\ op = "pending"
    /\ args \in [content : Contents, file_extension : Extensions]

\* clean_text, raw_text = parse_transcript(uploaded_file, file_ext)
ParseTranscript ==
    /\ op = "pending"
    /\ op' = "parse_transcript"
    /\ LET r == parse_transcript(args.content, args.file_extension)
       IN  ret' = [kind |-> r.kind, clean_text |-> r.clean_text, raw |-> r.raw,
                   pieces |-> text_content(args.content, args.file_extension)]
    /\ UNCHANGED <<session, calls, args>>

\* mets = calculate_metrics(clean_text)
CalculateMetrics ==
    /\ op = "parse_transcript"
    /\ ret.kind = "return"
    /\ op' = "calculate_metrics"
    /\ metrics' = Some(calculate_metrics(ret.clean_text))
    /\ UNCHANGED <<analysis_result, transcript_text, raw_transcript_text,
                   chat_messages, api_key_set, calls, args, ret>>

NextParse == ParseTranscript \/ CalculateMetrics

SpecParse == InitParse /\ [][NextParse]_vars

(***************************************************************************)
(* chat_with_coach on drawn transcripts, histories and questions           *)
(***************************************************************************)
\* the words and marks questions are made of
QuestionVocabulary ==
    { << "t", "h", "e" >>,
      << "i", "s" >>,
      << "i", "t", "'", "s" >>,
      << "x", "y", "z" >>,
      << "p", "r", "i", "c", "e" >>,
      << "P", "r", "i", "c", "e", "?" >>,
      << "?" >>,
      << "'", "'", "'" >>,
      << "a", "b" >>,
      << "t", "r", "i", "a", "l", "s" >> }

MaxQuestionWords == 2

Questions ==
    { JoinWith(<< " " >>, ws) :
        ws \in UNION { [1..n -> QuestionVocabulary] : n \in 0..MaxQuestionWords } }

ChatTranscripts ==
    { <<>>,
      << "I", "t", "'", "s", " ", "a", " ", "f", "i", "n", "e", " ",
         "P", "r", "i", "c", "e" >>,
      << "T", "h", "e", " ", "t", "r", "i", "a", "l" >> }

OtherQuestion == << "t", "r", "i", "a", "l" >>

AnswerOk == << "o", "k" >>

\* the histories a caller may pass with the question q
HistoriesFor(q) ==
    { <<>>,
      << Turn("user", q) >>,
      << Msg("user", None, Some(<< q >>)) >>,
      << Msg("user", Some(<<>>), Some(<< q >>)) >>,
      << Turn("user", q), Turn("assistant", <<>>) >>,
      << Turn("user", OtherQuestion) >>,
      << Turn("user", OtherQuestion), Turn("assistant", AnswerOk) >>,
      << Turn("user", OtherQuestion), Turn("assistant", AnswerOk), Turn("user", q) >>,
      << Turn("assistant", q) >> }

\* what the completion service does with a chat prompt
ChatOutcomes ==
    { [kind |-> "fail", text |-> <<>>],
      [kind |-> "text", text |-> AnswerOk],
      [kind |-> "text", text |-> Refusal] }

InitChat ==
    /\ SessionInit
    /\ op = "pending"
    /\ \E q \in Questions :
         args \in [client_ok : BOOLEAN, transcript : ChatTranscripts,
                   history : HistoriesFor(q), question : {q}, llm : ChatOutcomes]

ChatWithCoach ==
    /\ op = "pending"
    /\ op' = "chat_with_coach"
    /\ LET r == chat_with_coach(args.client_ok, args.transcript, args.history,
                                args.question, args.llm)
       IN  /\ ret' = [kind |-> r.out.kind, val |-> r.out.val, sent |-> r.sent]
           /\ calls' = calls + r.ncalls
    /\ UNCHANGED <<session, args>>

NextChat == ChatWithCoach

SpecChat == InitChat /\ [][NextChat]_vars

(***************************************************************************)
(* The session of app.py: the Upload page and the Coach Chat page          *)
(***************************************************************************)
PriceIsFine ==
    << "T", "h", "e", " ", "p", "r", "i", "c", "e", " ", "i", "s", " ",
       "f", "i", "n", "e" >>

\* the files a user uploads: extension and decoded content
SessionFiles ==
    { [file_extension |-> "srt",
       content |-> JoinWith(<< "\n" >>, << << "1" >>, Cue(","), HelloThere >>)],
      [file_extension |-> "txt", content |-> PriceIsFine],
      [file_extension |-> "vtt", content |-> <<>>] }

\* what the completion service does with the analysis prompt
SessionAnalyses ==
    { [kind |-> "fail", text |-> <<>>],
      [kind |-> "text",
       text |-> << Fence("json"), WS >>
                \o ObjToks(<< M("summary", << S("ok") >>) >>)
                \o << WS, Fence("") >>],
      [kind |-> "text",
       text |-> ObjToks(<< M("summary", << S("fine") >>),
                           M("sentiment_score", << N(85) >>) >>)],
      [kind |-> "text", text |-> << W("Sorry"), WS, W("no") >>],
      [kind |-> "text", text |-> << N(42) >>],
      [kind |-> "text", text |-> ListToks(<<>>)] }

SessionQuestions ==
    { << "p", "r", "i", "c", "e", "?" >>,
      << "x", "y", "z" >>,
      << "t", "h", "e" >> }

SessionAnswers ==
    { [kind |-> "fail", text |-> <<>>], [kind |-> "text", text |-> AnswerOk] }

MaxCalls == 2

MaxChatMessages == 3

Init ==
    /\ SessionInit
    /\ op = "none"
    /\ args = <<>>

\* the sidebar: a key typed in (or read from the secrets) is put in os.environ
SetApiKey ==
    /\ ~api_key_set
    /\ api_key_set' = TRUE
    /\ op' = "set_api_key"
    /\ args' = <<>>
    /\ ret' = NoRet
    /\ UNCHANGED <<analysis_result, transcript_text, raw_transcript_text, metrics,
                   chat_messages, calls>>

\* "error" in analysis: "yes", "no", or "TypeError" for a value that is no
\* container (the str case holds for the strings of the model, none of which
\* has "error" as a proper substring)
ErrorIn(analysis) ==
    CASE IsDict(analysis) -> IF HasKey(analysis, "error") THEN "yes" ELSE "no"
      [] IsList(analysis) ->
            IF PyStr("error") \in SeqRange(analysis.items) THEN "yes" ELSE "no"
      [] analysis.k = "str" -> IF analysis.s = "error" THEN "yes" ELSE "no"
      [] OTHER -> "TypeError"

\* parse_transcript and calculate_metrics on each file, worked out once
ParsedUploads ==
    { <<file,
        LET parsed == parse_transcript(file.content, file.file_extension)
        IN  [kind |-> parsed.kind, clean_text |-> parsed.clean_text,
             raw |-> parsed.raw, metrics |-> calculate_metrics(parsed.clean_text)]>> :
        file \in SessionFiles }

ParsedFiles ==
    [file \in SessionFiles |->
        (CHOOSE entry \in ParsedUploads : entry[1] = file)[2]]

\* analyze_call for each way the client and the completion service can go,
\* worked out once
AnalyzedRuns ==
    { <<run, analyze_call(run.client_ok, run.llm)>> :
        run \in [client_ok : BOOLEAN, llm : SessionAnalyses] }

Analyzed ==
    [run \in [client_ok : BOOLEAN, llm : SessionAnalyses] |->
        (CHOOSE entry \in AnalyzedRuns : entry[1] = run)[2]]

\* what one upload did: whether the transcript was stored, and how the
\* analysis step ended
UploadRet(stored, analysis, ncalls) ==
    [kind |-> "return", stored |-> stored, analysis |-> analysis, ncalls |-> ncalls]

\* the "Analyze Transcript" button on an uploaded file: decodes says whether
\* the bytes decode as UTF-8
Upload(file, decodes, client_ok, llm) ==
    /\ calls < MaxCalls
    /\ op' = "upload"
    /\ args' = file
    /\ UNCHANGED <<chat_messages, api_key_set>>
    /\ LET parsed == ParsedFiles[file]
           r      == Analyzed[[client_ok |-> client_ok, llm |-> llm]]
           found  == ErrorIn(r.out.val)
       IN  IF ~api_key_set \/ ~decodes \/ parsed.kind = "raise"
           THEN /\ ret' = UploadRet(FALSE, "not run", 0)
                /\ UNCHANGED <<analysis_result, transcript_text,
                               raw_transcript_text, metrics, calls>>
           ELSE /\ transcript_text' = Some(parsed.clean_text)
                /\ raw_transcript_text' = Some(parsed.raw)
                /\ metrics' = Some(parsed.metrics)
                /\ calls' = calls + r.ncalls
                /\ IF r.out.kind = "raise" \/ found = "TypeError"
                   THEN /\ ret' = UploadRet(TRUE, "raised", r.ncalls)
                        /\ UNCHANGED analysis_result
                   ELSE IF found = "yes"
                   THEN /\ ret' = UploadRet(TRUE, "error value", r.ncalls)
                        /\ UNCHANGED analysis_result
                   ELSE /\ ret' = UploadRet(TRUE, "success", r.ncalls)
                        /\ analysis_result' = Some(r.out.val)

\* a question typed in the chat input of the Coach Chat page
ChatTurn(prompt, client_ok, llm) ==
    /\ calls < MaxCalls
    /\ Len(chat_messages) + 2 <= MaxChatMessages
    /\ Truthy(raw_transcript_text)
    /\ prompt # <<>>
    /\ op' = "chat_turn"
    /\ args' = prompt
    /\ UNCHANGED <<analysis_result, transcript_text, raw_transcript_text, metrics,
                   api_key_set>>
    /\ LET with_user == Append(chat_messages, Turn("user", prompt))
           r == IF api_key_set
                THEN chat_with_coach(client_ok, raw_transcript_text[1], with_user,
                                     prompt, llm)
                ELSE [out |-> Raised("KeyError"), ncalls |-> 0, sent |-> <<>>]
       IN  /\ calls' = calls + r.ncalls
           /\ ret' = [kind |-> r.out.kind, val |-> r.out.val, sent |-> r.sent,
                      ncalls |-> r.ncalls]
           /\ IF r.out.kind = "raise"
              THEN chat_messages' = with_user
              ELSE chat_messages' =
                        Append(with_user, Turn("assistant", r.out.val.txt))

\* the ways an upload can go: the bytes do not decode; the client cannot be
\* built; or the completion service is called
UploadRuns ==
    { [decodes |-> FALSE, client_ok |-> TRUE, llm |-> [kind |-> "fail", text |-> <<>>]],
      [decodes |-> TRUE, client_ok |-> FALSE, llm |-> [kind |-> "fail", text |-> <<>>]] }
    \cup [decodes : {TRUE}, client_ok : {TRUE}, llm : SessionAnalyses]

\* the ways a chat turn can go
ChatRuns ==
    { [client_ok |-> FALSE, llm |-> [kind |-> "fail", text |-> <<>>]] }
    \cup [client_ok : {TRUE}, llm : SessionAnswers]

Next ==
    \/ SetApiKey
    \/ \E file \in SessionFiles, run \in UploadRuns :
          Upload(file, run.decodes, run.client_ok, run.llm)
    \/ \E prompt \in SessionQuestions, run \in ChatRuns :
          ChatTurn(prompt, run.client_ok, run.llm)

Spec == Init /\ [][Next]_vars

(***************************************************************************)
(* Claims about analyze_call                                               *)
(***************************************************************************)
TopLevelKeys == {defaults.fields[i].key : i \in 1..Len(defaults.fields)}

ClientIntentKeys ==
    {ClientIntentDefaults.fields[i].key : i \in 1..Len(ClientIntentDefaults.fields)}

ConsultScorecardKeys ==
    {ConsultScorecardDefaults.fields[i].key :
        i \in 1..Len(ConsultScorecardDefaults.fields)}

\* an error value: a dict with an "error" key
IsErrorValue(v) == IsDict(v) /\ HasKey(v, "error")

\* key is present in d and not None
PresentNonNull(d, key) == HasKey(d, key) /\ DictGet(d, key) # PyNone

\* all twelve fields, the four of client_intent and the seven ratings
AllFieldsPresent(v) ==
    /\ IsDict(v)
    /\ \A key \in TopLevelKeys : PresentNonNull(v, key)
    /\ IsDict(DictGet(v, "client_intent"))
    /\ \A key \in ClientIntentKeys : PresentNonNull(DictGet(v, "client_intent"), key)
    /\ IsDict(DictGet(v, "consult_scorecard"))
    /\ \A key \in ConsultScorecardKeys :
            PresentNonNull(DictGet(v, "consult_scorecard"), key)

\* what json.loads gave analyze_call for the response text of args
ParsedOfArgs == json_loads(_extract_first_json(args.llm.text).json_text)

AnalyzeReturned == op = "analyze_call" /\ ret.kind = "return"

\* C1: whenever analyze_call returns a value that is not an error value, the
\* value is a record with all twelve schema fields present and non-null, the
\* four client_intent sub-fields and the seven consult_scorecard ratings
\* present and non-null, and every top-level field the model left out or
\* gave as null holds its documented default.
C1_AllFieldsAfterValidation ==
    (AnalyzeReturned /\ ~IsErrorValue(ret.val))
        => /\ AllFieldsPresent(ret.val)
           /\ \A key \in TopLevelKeys :
                (IsDict(ParsedOfArgs.val) /\ MissingOrNone(ParsedOfArgs.val, key))
                    => DictGet(ret.val, key) = DictGet(defaults, key)

\* the response text of args holds no "{" with a "}" after it once the code
\* fences are stripped
NoBracePair ==
    /\ args.client_ok
    /\ args.llm.kind = "text"
    /\ BraceMatch(_strip_code_fences(args.llm.text)) = None

\* C2: for a response whose text, code fences stripped, has no substring from
\* a "{" to a "}", analyze_call returns an error value whose raw_response is
\* the response text received, never a non-error result.
C2_NoBracesGivesError ==
    (op = "analyze_call" /\ NoBracePair)
        => /\ ret.kind = "return"
           /\ IsErrorValue(ret.val)
           /\ DictGet(ret.val, "raw_response") = PyText(args.llm.text)

\* some step of the analysis failed: the client, the completion call, or the
\* extraction and parsing of the response
AnalyzeStepFailed ==
    \/ ~args.client_ok
    \/ args.llm.kind = "fail"
    \/ ~ParsedOfArgs.ok

\* C3: analyze_call never raises past its boundary; when any of its steps
\* fails it returns an error value {error, raw_response}.
C3_NeverRaises ==
    op = "analyze_call"
        => /\ ret.kind = "return"
           /\ AnalyzeStepFailed
                => /\ IsErrorValue(ret.val)
                   /\ HasKey(ret.val, "raw_response")

(***************************************************************************)
(* Claims about the session                                                *)
(***************************************************************************)
\* the last operation was an upload that stored its transcript
UploadStored == op = "upload" /\ ret.stored

\* ... and whose analysis step gave an error value or raised
UploadAnalysisFailed ==
    UploadStored /\ ret.analysis \in {"error value", "raised"}

\* C4: when the analysis of the most recent upload failed, the session's
\* analysis_result is unset: it is not the result of an earlier upload while
\* transcript_text, raw_transcript_text and metrics are the new upload's.
C4_FailedAnalysisUnsetsResult ==
    UploadAnalysisFailed => analysis_result = None

\* C5: right after an upload has stored a new raw transcript, chat_messages
\* is empty.
C5_UploadClearsChat ==
    UploadStored => chat_messages = <<>>

\* C6: a chat turn whose completion-service call fails leaves chat_messages
\* as it was before the turn.
C6_FailedTurnKeepsHistory ==
    [][(op' = "chat_turn" /\ ret'.kind = "raise" /\ ret'.ncalls = 1)
            => chat_messages' = chat_messages]_vars

(***************************************************************************)
(* Claims about chat_with_coach                                            *)
(***************************************************************************)
AlphanumericChars == SeqRange(LowerLetters) \cup Digits

\* a word of t: a stretch of characters of chars that no character of
\* chars precedes or follows
IsWordOf(w, t, chars) ==
    /\ w # <<>>
    /\ \A i \in 1..Len(w) : w[i] \in chars
    /\ \E i \in 0..(Len(t) - Len(w)) :
        /\ SubSeq(t, i + 1, i + Len(w)) = w
        /\ (i = 0 \/ t[i] \notin chars)
        /\ (i + Len(w) = Len(t) \/ t[i + Len(w) + 1] \notin chars)

\* the words of t: its stretches between positions a and b that are words
WordsOf(t, chars) ==
    { w \in {SubSeq(t, a, b) : a \in 1..Len(t), b \in 1..Len(t)} :
        IsWordOf(w, t, chars) }

\* the keyword set of a question whose words are the runs of chars: the
\* lowercase words that are no stop-word and longer than two characters
KeywordSet(question, chars) ==
    { w \in WordsOf(lower(question), chars) : w \notin stopwords /\ Len(w) > 2 }

NoKeywordInTranscript(keywords) ==
    \A w \in keywords : ~Contains(lower(args.transcript), w)

ChatRan == op = "chat_with_coach"

ReturnedRefusal == ret.kind = "return" /\ ret.val = PyText(Refusal)

\* C7 as claimed, the words being alphanumeric: a question with a non-empty
\* keyword set none of whose keywords occurs in the lowercased transcript is
\* answered with the fixed refusal, and no completion call is made.
C7_GateRefuses_Alphanumeric ==
    LET keywords == KeywordSet(args.question, AlphanumericChars)
    IN  (ChatRan /\ keywords # {} /\ NoKeywordInTranscript(keywords))
            => /\ calls = 0
               /\ args.client_ok => ReturnedRefusal

\* C7 (amended): the words of the question being the maximal runs of
\* lowercase letters, digits and apostrophes, a question with a non-empty
\* keyword set none of whose keywords occurs in the lowercased transcript is
\* answered with exactly the fixed refusal, and no completion call is made.
C7_GateRefuses ==
    LET keywords == KeywordSet(args.question, AlphanumericChars \cup {"'"})
    IN  (ChatRan /\ keywords # {} /\ NoKeywordInTranscript(keywords))
            => /\ calls = 0
               /\ args.client_ok => ReturnedRefusal

\* a refusal by the gate: keywords (apostrophes kept), none in the transcript
C7_Witness ==
    /\ ChatRan
    /\ args.client_ok
    /\ args.transcript # <<>>
    /\ KeywordSet(args.question, AlphanumericChars \cup {"'"}) # {}
    /\ NoKeywordInTranscript(KeywordSet(args.question, AlphanumericChars \cup {"'"}))
    /\ ReturnedRefusal
    /\ calls = 0

\* the turn went on to the completion service and gave back what it said
ProceededToModel ==
    /\ calls = 1
    /\ Len(ret.sent) = 1
    /\ ret.kind = "return" => ret.val = PyText(args.llm.text)
    /\ ret.kind = "raise" => args.llm.kind = "fail"

\* C8 as claimed: for every transcript, a question whose alphanumeric keyword
\* set is empty (the empty question, stop-words or punctuation only) passes
\* the gate and the turn proceeds to the completion-service call.
C8_EmptyKeywordsPass_Every ==
    (ChatRan /\ args.client_ok
        /\ KeywordSet(args.question, AlphanumericChars) = {})
        => ProceededToModel

\* C8 (amended): for every non-empty transcript, a non-empty question whose
\* keyword set is empty, the words being the maximal runs of lowercase
\* letters, digits and apostrophes, passes the gate and the turn proceeds to
\* the completion-service call.
C8_EmptyKeywordsPass ==
    (ChatRan /\ args.client_ok
        /\ args.transcript # <<>> /\ args.question # <<>>
        /\ KeywordSet(args.question, AlphanumericChars \cup {"'"}) = {})
        => ProceededToModel

\* a question of stop-words and punctuation that went to the model
C8_Witness ==
    /\ ChatRan
    /\ args.client_ok
    /\ args.transcript # <<>>
    /\ findall_words(lower(args.question)) # <<>>
    /\ KeywordSet(args.question, AlphanumericChars \cup {"'"}) = {}
    /\ calls = 1
    /\ ret.kind = "return"
    /\ ret.val = PyText(AnswerOk)

\* the question is the last entry of history: a user turn whose text, in
\* content or else in parts, is the question
AlreadyLast(history, question) ==
    /\ history # <<>>
    /\ history[Len(history)].role = "user"
    /\ ContentOf(history[Len(history)]) = Some(question)

\* C9: when the gate passes, the conversation sent ends with the line
\* "User: <question>", and that line is appended to the lines of history if
\* and only if the question is not already the last entry of history.
C9_QuestionLineOnce ==
    (ChatRan /\ calls = 1)
        => LET lines == ret.sent[1].lines
               from_history == HistoryLines(args.history)
           IN  /\ lines # <<>>
               /\ lines[Len(lines)] = UserLine(args.question)
               /\ AlreadyLast(args.history, args.question) => lines = from_history
               /\ ~AlreadyLast(args.history, args.question)
                    => lines = Append(from_history, UserLine(args.question))

(***************************************************************************)
(* Claims about the parsers                                                *)
(***************************************************************************)
IsSubtitle == args.file_extension \in {"vtt", "srt"}

CueSeparator == IF args.file_extension = "vtt" THEN "." ELSE ","

\* a line that is a cue-timing line of the format, leading whitespace allowed
IsCueLine(line) == PatternMatch(timestamp_pattern(CueSeparator), LStripChars(line))

\* a pure-numeric block-index line
IsIndexLine(line) == IsDigitStr(StripChars(line))

\* the header line of a vtt file
IsHeaderLine(line) ==
    args.file_extension = "vtt" /\ StartsWith(StripChars(line), WEBVTT)

Parsed == op \in {"parse_transcript", "calculate_metrics"} /\ ret.kind = "return"

\* C10: no cue-timing line of the format (leading whitespace or not), no
\* pure-numeric line and no vtt header line contributes a piece to cleanText.
C10_NoMarkupInCleanText ==
    (Parsed /\ IsSubtitle)
        => \A line \in SeqRange(splitlines(args.content)) :
                (IsCueLine(line) \/ IsIndexLine(line) \/ IsHeaderLine(line))
                    => StripChars(line) \notin SeqRange(ret.pieces)

\* a line the format marks for removal: the vtt header line, a blank line, a
\* pure-numeric line, a cue-timing line
IsMarkup(line) ==
    \/ IsHeaderLine(line)
    \/ StripChars(line) = <<>>
    \/ IsIndexLine(line)
    \/ IsCueLine(line)

\* the remaining lines of the file, stripped, in input order
RemainingLines ==
    StripAll(SelectSeq(splitlines(args.content), LAMBDA line : ~IsMarkup(line)))

\* no cue-timing line of the file is indented
NoIndentedCue ==
    \A line \in SeqRange(splitlines(args.content)) :
        IsCueLine(line) => PatternMatch(timestamp_pattern(CueSeparator), line)

\* C11: for a subtitle file (its cue-timing lines unindented), cleanText is
\* the single-space join, in input order, of all remaining lines: every line
\* that is not the header line (vtt), blank, pure-numeric or a cue-timing
\* line is there once, stripped - a spoken line that mentions the header
\* token included.
C11_RemainingLinesJoined ==
    (Parsed /\ IsSubtitle /\ NoIndentedCue)
        => ret.clean_text = JoinWith(<< " " >>, RemainingLines)

(***************************************************************************)
(* Claims on calculate_metrics                                             *)
(***************************************************************************)
\* the positions where a whitespace-delimited token of t starts
TokenStarts(t) ==
    {i \in 1..Len(t) : ~IsSpaceChar(t[i]) /\ (i = 1 \/ IsSpaceChar(t[i - 1]))}

MetricsRan == op = "calculate_metrics" /\ metrics # None

\* C12: calculate_metrics returns word_count = the number of
\* whitespace-delimited tokens of the clean text (0 for empty or blank text)
\* and a duration that is word_count / 140 rounded to two decimals (within
\* half a hundredth of it; 0.0 for 0 words, 0.04 for 5 words); both are
\* non-negative and fixed by the token count.
C12_MetricsOfTokenCount ==
    MetricsRan
        => LET n == Cardinality(TokenStarts(ret.clean_text))
               h == metrics[1].estimated_duration_hundredths
           IN  /\ metrics[1].word_count = n
               /\ h >= 0
               /\ 2 * (100 * n - 140 * h) <= 140
               /\ 2 * (140 * h - 100 * n) <= 140
               /\ (n = 0 => h = 0)
               /\ (n = 5 => h = 4)

\* the spec's scenario: the sample VTT file has 5 words, 0.04 minutes
C12_Witness ==
    /\ MetricsRan
    /\ args = [content |-> SampleVtt, file_extension |-> "vtt"]
    /\ metrics[1] = [word_count |-> 5, estimated_duration_hundredths |-> 4]

(***************************************************************************)
(* Claims on _ensure_analysis_keys                                         *)
(***************************************************************************)
\* analyze_call parsed the response and handed the value to the back-fill
BackfillRan ==
    /\ AnalyzeReturned
    /\ args.client_ok
    /\ args.llm.kind = "text"
    /\ ParsedOfArgs.ok

\* C13: back-fill is idempotent: for every parsed record x (fields missing,
\* null or of the wrong shape, sub-records partial or not records), the
\* result of _ensure_analysis_keys(x) is left as it is by a second
\* _ensure_analysis_keys.
C13_BackfillIdempotent ==
    BackfillRan
        => /\ ret.val = _ensure_analysis_keys(ParsedOfArgs.val)
           /\ _ensure_analysis_keys(ret.val) = ret.val

\* a record with a wrong-shaped list field and a partial client_intent that
\* carries a value of its own went through the back-fill and was changed
C13_Witness ==
    /\ BackfillRan
    /\ IsDict(ParsedOfArgs.val)
    /\ HasKey(ParsedOfArgs.val, "topics")
    /\ ~IsList(DictGet(ParsedOfArgs.val, "topics"))
    /\ IsDict(DictGet(ParsedOfArgs.val, "client_intent"))
    /\ DictGet(DictGet(ParsedOfArgs.val, "client_intent"), "occasion") = PyStr("wedding")
    /\ ~HasKey(DictGet(ParsedOfArgs.val, "client_intent"), "date_mentions")
    /\ ret.val # ParsedOfArgs.val

\* the severities and the missed-question vocabulary the prompt allows
SeverityLevels == {"low", "medium", "high"}

MissedQuestionVocabulary ==
    {"skin type", "inspiration/photos", "schedule", "party size", "budget range",
     "decision process", "trial expectations"}

IsIntIn(v, lo, hi) == v.k = "int" /\ v.n >= lo /\ v.n <= hi

\* every field of the record v has a value of its documented domain
InDomain(v) ==
    /\ DictGet(v, "summary").k = "str"
    /\ IsIntIn(DictGet(v, "sentiment_score"), 0, 100)
    /\ IsDict(DictGet(v, "consult_scorecard"))
    /\ \A key \in ConsultScorecardKeys :
            IsIntIn(DictGet(DictGet(v, "consult_scorecard"), key), 0, 10)
    /\ IsList(DictGet(v, "conversion_risks"))
    /\ \A risk \in SeqRange(DictGet(v, "conversion_risks").items) :
            /\ IsDict(risk)
            /\ DictGet(risk, "severity").k = "str"
            /\ DictGet(risk, "severity").s \in SeverityLevels
    /\ IsList(DictGet(v, "missed_questions"))
    /\ \A q \in SeqRange(DictGet(v, "missed_questions").items) :
            q.k = "str" /\ q.s \in MissedQuestionVocabulary

\* C14: when the model returns a JSON object and analyze_call returns a
\* success, every field of the result is inside its documented domain:
\* summary a string, sentiment_score an integer in 0..100, the seven ratings
\* integers in 0..10, every conversion_risks severity one of low, medium,
\* high, every missed_questions entry one of the seven allowed.
C14_ValuesInDomain ==
    (BackfillRan /\ IsDict(ParsedOfArgs.val) /\ ~IsErrorValue(ret.val))
        => InDomain(ret.val)

(***************************************************************************)
(* Claims on the completion-service calls of a request                     *)
(***************************************************************************)
FailedCompletion == [kind |-> "fail", text |-> <<>>]

\* C15 as stated: every analysis request issues exactly one completion call
\* and every chat turn at most one.
C15_ExactlyOneCallPerAnalysis ==
    [][/\ (op' = "upload" /\ ret'.stored) => calls' = calls + 1
       /\ op' = "chat_turn" => calls' - calls \in {0, 1}]_vars

\* C15: no retries.  No request issues more than one completion call; an
\* analysis request whose client is constructed issues exactly one, and when
\* that call fails the analysis ends at once with an error value; a chat
\* turn issues at most one, and when that call fails the error propagates
\* (no answer is appended) with no second call.
C15_NoRetries ==
    [][/\ calls' - calls \in {0, 1}
       /\ \A file \in SessionFiles, llm \in SessionAnalyses :
            (op' = "upload" /\ args' = file /\ Upload(file, TRUE, TRUE, llm)
             /\ ret'.stored)
                => /\ calls' = calls + 1
                   /\ ret'.ncalls = 1
                   /\ llm = FailedCompletion => ret'.analysis = "error value"
       /\ \A prompt \in SessionQuestions :
            (op' = "chat_turn" /\ args' = prompt /\ ret'.ncalls # 0
             /\ ChatTurn(prompt, TRUE, FailedCompletion))
                => /\ calls' = calls + 1
                   /\ ret'.kind = "raise"
                   /\ Len(ret'.sent) = 1
                   /\ chat_messages' = Append(chat_messages, Turn("user", prompt))]_vars

\* an analysis made its one call and then a chat turn's one call failed
C15_Witness ==
    /\ op = "chat_turn"
    /\ ret.kind = "raise"
    /\ ret.ncalls = 1
    /\ calls = 2
    /\ analysis_result # None

SubRecordKeys == {"client_intent", "consult_scorecard"}

\* the field (key, val) the model supplied is kept by the back-filled record y
SuppliedKept(key, val, y) ==
    CASE key \notin TopLevelKeys -> HasKey(y, key) /\ DictGet(y, key) = val
      [] val = PyNone -> TRUE
      [] key \in SeqRange(ListKeys) -> IsList(val) => DictGet(y, key) = val
      [] key \in SubRecordKeys ->
            IsDict(val)
                => /\ IsDict(DictGet(y, key))
                   /\ \A j \in 1..Len(val.fields) :
                        val.fields[j].val # PyNone
                            => DictGet(DictGet(y, key), val.fields[j].key)
                                   = val.fields[j].val
                   /\ (\A j \in 1..Len(val.fields) : val.fields[j].val # PyNone)
                      /\ (\A sub \in SeqRange(DictGet(defaults, key).fields) :
                              HasKey(val, sub.key))
                        => DictGet(y, key) = val
      [] OTHER -> DictGet(y, key) = val

\* C16: back-fill preserves what the model supplied: a top-level field that
\* is present, non-null and of the expected shape keeps its value (a
\* sub-record keeps every present non-null sub-field, and is unchanged when
\* it lacks none), and keys outside the schema are untouched; only absent,
\* null or wrong-shaped fields are changed.
C16_BackfillPreserves ==
    (AnalyzeReturned /\ args.client_ok /\ args.llm.kind = "text")
        => LET parsed == ParsedOfArgs
           IN  (parsed.ok /\ IsDict(parsed.val))
                 => /\ IsDict(ret.val)
                    /\ \A i \in 1..Len(parsed.val.fields) :
                         SuppliedKept(parsed.val.fields[i].key,
                                      parsed.val.fields[i].val, ret.val)

\* a record with supplied fields of every kind, and something to fill, went
\* through the back-fill
C16_Witness ==
    /\ AnalyzeReturned
    /\ args.client_ok
    /\ args.llm.kind = "text"
    /\ LET parsed == ParsedOfArgs
       IN  /\ parsed.ok
           /\ IsDict(parsed.val)
           /\ DictGet(parsed.val, "summary") = PyStr("ok")
           /\ IsList(DictGet(parsed.val, "topics"))
           /\ DictGet(parsed.val, "sentiment_score") = PyInt(85)
           /\ DictGet(DictGet(parsed.val, "client_intent"), "occasion")
                = PyStr("wedding")
           /\ DictGet(DictGet(parsed.val, "consult_scorecard"),
                      "authority_and_leadership") = PyInt(7)
           /\ DictGet(parsed.val, "notes") = PyStr("n/a")
           /\ ret.val # parsed.val

(***************************************************************************)
(* Claims on the chat history of the session                               *)
(***************************************************************************)
\* user, assistant, user, assistant, ...: a user turn first, each followed
\* by an assistant turn
Alternates(history) ==
    /\ Len(history) % 2 = 0
    /\ \A i \in 1..Len(history) :
            history[i].role = IF i % 2 = 1 THEN "user" ELSE "assistant"

\* a chat turn of the kinds the claim lists: the gate refused or the model
\* answered (the turn returned), or the one completion call failed
ListedTurn(kind, ncalls) == kind = "return" \/ (kind = "raise" /\ ncalls = 1)

\* C17: in every state between user interactions, after any sequence of chat
\* turns (refusals, answers, failed calls), chat_messages alternates user,
\* assistant, ... from a user turn and has even length: every question is
\* directly followed by its answer.  The history starts empty, so this is:
\* each such turn takes an alternating history to an alternating history.
C17_HistoryAlternates ==
    [][(op' = "chat_turn" /\ ListedTurn(ret'.kind, ret'.ncalls))
          => (Alternates(chat_messages) => Alternates(chat_messages'))]_vars

=============================================================================
